---- MODULE Spec2Model ----
(***************************************************************************)
(* Quiz application: the core (models.py: Question, QuestionDataset,      *)
(* QuizGenerator, QuizCorrector) and the session layer of the Streamlit    *)
(* page (app.py: QuizView and main).                                       *)
(*                                                                         *)
(* Conventions                                                             *)
(*  - A Python list is a TLA+ sequence; list position p (0-based) is       *)
(*    sequence index p + 1.                                                *)
(*  - A Python float score is an exact rational <<num, den>> in lowest     *)
(*    terms with den > 0; IEEE rounding is not modelled.                   *)
(*  - A Question object is identified by a reference (qid); qstore maps    *)
(*    each reference to the object's fields.  Two lists holding the same   *)
(*    qid hold the same object.                                            *)
(*  - A list that may be shared between two holders is a handle            *)
(*    [alias, val]: alias FALSE is a list object of its own with content   *)
(*    val; alias TRUE is the very list object of the holder it was taken   *)
(*    from, whose content is read and written through that holder.         *)
(***************************************************************************)
EXTENDS Integers, Sequences, FiniteSets, TLC

VARIABLES
    questions,      \* QuestionDataset.questions: sequence of Question references
    file_path,      \* QuestionDataset.file_path
    qstore,         \* the Question objects: reference -> fields
    loads,          \* number of load() calls that replaced the questions so far
    err,            \* exception raised by the last call, "none" when it returned
    call,           \* the last call of the core and its arguments
    ret,            \* the last get_questions_by_tags call of a caller: its argument,
                    \* the list it returned and the load the dataset was then at
    quiz,           \* list returned by the last generate call
    answers,        \* answers mapping given to correct_quiz: position -> selected list
    results,        \* value returned by the last correct_quiz call
    arg_correct,    \* score_single / score_multiple argument `correct`
    arg_selected,   \* score_single / score_multiple argument `selected`
    score,          \* the last scoring call and the value it returned
    instance,       \* QuestionDataset._instance is not None
    holder,         \* the dataset object the first QuizGenerator was built on
    tagret,         \* the last all_tags call of a caller: the set it returned
                    \* and the load the dataset was then at
    stats,          \* value returned by the last calculate_module_stats call
    ss,             \* st.session_state: step, quiz_generated, quiz_finished,
                    \* selected_options, quiz_history and whether the key quiz
                    \* holds a list (its list is `quiz`; the keys answers,
                    \* results and module_stats are `answers`, `results`, `stats`)
    view            \* where the script run is: what it displays, or "run" /
                    \* "rerun" while it executes

vars == <<questions, file_path, qstore, loads, err, call, ret, quiz, answers,
          results, arg_correct, arg_selected, score, instance, holder, tagret,
          stats, ss, view>>

appVars == <<instance, holder, tagret, stats, ss, view>>

dsVars == <<questions, file_path, qstore, loads>>

scoreVars == <<arg_correct, arg_selected, score>>

None == "None"

\* no scoring call, no call of the core, no correction made yet
NoScore == [fn |-> "none", val |-> <<0, 1>>]

NoCall == [op |-> "none"]

NoResults == [per_question |-> <<>>, total_score |-> <<0, 1>>]

\* the `tags` argument left out (Python None)
Omitted == [omitted |-> TRUE, val |-> <<>>]

\* no get_questions_by_tags call made yet
NoRet == [epoch |-> -1, tags |-> Omitted, items |-> <<>>]

\* no QuizGenerator built yet. held: one was built; same: the dataset it
\* holds is the object QuestionDataset._instance names; questions: the
\* question list of its dataset when that is another object
NoHolder == [held |-> FALSE, same |-> FALSE, questions |-> <<>>]

SharedHolder == [held |-> TRUE, same |-> TRUE, questions |-> <<>>]

\* no all_tags call, no calculate_module_stats call made yet
NoTagRet == [epoch |-> -1, tags |-> {}]

NoStats == [computed |-> FALSE, modules |-> <<>>]

\* st.session_state as the script's first run sets it (quiz is None)
InitialSession == [step |-> 0, quiz_set |-> FALSE, quiz_generated |-> FALSE,
                   quiz_finished |-> FALSE, selected_options |-> <<>>,
                   quiz_history |-> <<>>]

\* the shared dataset constructed and a generator built on it; no all_tags
\* call, no statistics, no script run yet
AppIdle ==
    /\ instance = TRUE
    /\ holder = SharedHolder
    /\ tagret = NoTagRet
    /\ stats = NoStats
    /\ ss = InitialSession
    /\ view = "none"

----------------------------------------------------------------------------
(* Bounds *)

MaxCorrect == 2

MaxSel == 3

Options == {"A", "B", "C", "D"}

\* All sequences over S of length at most n
BSeq(S, n) == UNION {[1..k -> S] : k \in 0..n}

----------------------------------------------------------------------------
(* Python built-ins used by the code *)

\* set(lst)
ToSet(lst) == {lst[i] : i \in DOMAIN lst}

\* x in lst
Contains(lst, x) == \E i \in DOMAIN lst : lst[i] = x

Min(a, b) == IF a <= b THEN a ELSE b

Abs(n) == IF n < 0 THEN -n ELSE n

RECURSIVE GCD(_, _)
GCD(a, b) == IF b = 0 THEN a ELSE GCD(b, a % b)

\* the number n / d (d > 0) in lowest terms
Rat(n, d) == LET g == GCD(Abs(n), d) IN <<n \div g, d \div g>>

Zero == Rat(0, 1)

One == Rat(1, 1)

\* a / b on numbers held as rationals
RatDiv(a, b) == Rat(a[1] * b[2], a[2] * b[1])

RatSub(a, b) == Rat(a[1] * b[2] - b[1] * a[2], a[2] * b[2])

RatAdd(a, b) == Rat(a[1] * b[2] + b[1] * a[2], a[2] * b[2])

RatMul(a, b) == Rat(a[1] * b[1], a[2] * b[2])

RatLeq(a, b) == a[1] * b[2] <= b[1] * a[2]

\* max(a, b)
RatMax(a, b) == IF RatLeq(b, a) THEN a ELSE b

\* float(n) / int operand of a true division
Num(n) == Rat(n, 1)

----------------------------------------------------------------------------
(* QuizCorrector.score_single, QuizCorrector.score_multiple *)

\* faulty variant: the length test on `selected` is dropped
score_single_nolen(correct, selected) ==
    IF correct = <<>> THEN Zero
    ELSE IF Len(selected) >= 1 /\ Contains(correct, selected[1]) THEN One ELSE Zero

score_single(correct, selected) ==
    IF correct = <<>> THEN Zero
    ELSE IF Len(selected) = 1 /\ Contains(correct, selected[1]) THEN One ELSE Zero

\* faulty variant: the penalty is divided by the number of selected options
score_multiple_penalty(correct, selected) ==
    LET correct_set == ToSet(correct)
        selected_set == ToSet(selected)
        intersect == correct_set \cap selected_set
        false_selected == selected_set \ correct_set
        numerator == Cardinality(intersect)
        denom == Cardinality(correct_set)
    IN  IF correct_set = {} THEN Zero
        ELSE IF selected_set = {} THEN Zero
        ELSE RatMax(Zero, RatSub(RatDiv(Num(numerator), Num(denom)),
                                 RatDiv(Num(Cardinality(false_selected)),
                                        Num(Cardinality(selected_set)))))

\* faulty variant: the floor max(0.0, score) is dropped
score_multiple_noclamp(correct, selected) ==
    LET correct_set == ToSet(correct)
        selected_set == ToSet(selected)
        intersect == correct_set \cap selected_set
        false_selected == selected_set \ correct_set
        numerator == Cardinality(intersect)
        denom == Cardinality(correct_set)
    IN  IF correct_set = {} THEN Zero
        ELSE RatSub(RatDiv(Num(numerator), Num(denom)),
                    RatDiv(Num(Cardinality(false_selected)), Num(denom)))

\* faulty variant: abs(score) in place of max(0.0, score)
score_multiple_abs(correct, selected) ==
    LET correct_set == ToSet(correct)
        selected_set == ToSet(selected)
        intersect == correct_set \cap selected_set
        false_selected == selected_set \ correct_set
        numerator == Cardinality(intersect)
        denom == Cardinality(correct_set)
    IN  IF correct_set = {} THEN Zero
        ELSE LET s == RatSub(RatDiv(Num(numerator), Num(denom)),
                             RatDiv(Num(Cardinality(false_selected)), Num(denom)))
             IN  <<Abs(s[1]), s[2]>>

\* faulty variant: wrongly selected options are not subtracted
score_multiple_nopenalty(correct, selected) ==
    LET correct_set == ToSet(correct)
        selected_set == ToSet(selected)
        intersect == correct_set \cap selected_set
        numerator == Cardinality(intersect)
        denom == Cardinality(correct_set)
    IN  IF correct_set = {} THEN Zero
        ELSE RatMax(Zero, RatDiv(Num(numerator), Num(denom)))

score_multiple(correct, selected) ==
    LET correct_set == ToSet(correct)
        selected_set == ToSet(selected)
        intersect == correct_set \cap selected_set
        false_selected == selected_set \ correct_set
        numerator == Cardinality(intersect)
        denom == Cardinality(correct_set)
    IN  IF correct_set = {} THEN Zero
        ELSE LET s == RatSub(RatDiv(Num(numerator), Num(denom)),
                             RatDiv(Num(Cardinality(false_selected)), Num(denom)))
             IN  RatMax(Zero, s)

----------------------------------------------------------------------------
(* The scoring functions applied to arguments drawn from bounded sets *)

InitScore ==
    /\ arg_correct \in BSeq(Options, MaxCorrect)
    /\ arg_selected \in BSeq(Options, MaxSel)
    /\ score = NoScore
    /\ questions = <<>>
    /\ file_path = None
    /\ qstore = <<>>
    /\ loads = 0
    /\ err = "none"
    /\ call = NoCall
    /\ ret = NoRet
    /\ quiz = <<>>
    /\ answers = <<>>
    /\ results = NoResults
    /\ AppIdle

ScoreSingle ==
    /\ score' = [fn |-> "single", val |-> score_single(arg_correct, arg_selected)]
    /\ UNCHANGED <<dsVars, err, call, ret, quiz, answers, results, appVars,
                   arg_correct, arg_selected>>

ScoreMultiple ==
    /\ score' = [fn |-> "multiple", val |-> score_multiple(arg_correct, arg_selected)]
    /\ UNCHANGED <<dsVars, err, call, ret, quiz, answers, results, appVars,
                   arg_correct, arg_selected>>

NextScore == ScoreSingle \/ ScoreMultiple

SpecScore == InitScore /\ [][NextScore]_vars

----------------------------------------------------------------------------
(* The files load() may be pointed at, and their JSON content *)

MaxLoads == 1

MaxTags == 2

MaxCount == 3

TagNames == {"x", "y"}

Paths == {"quiz_dataset.json", "other.json", "missing.json", "broken.json"}

\* the files of the other specifications: an empty array, an object, an
\* empty object, a number, an array holding a number, and records with an
\* unrecognised mode and a repeated tag
AllPaths == Paths \cup {"empty.json", "object.json", "empty_object.json",
                        "number.json", "mixed.json", "modes.json"}

\* "records": a JSON array; "object": a JSON object; "scalar": a JSON
\* number; "missing": no such file; "malformed": json.load raises
FileKind(path) ==
    CASE path = "missing.json" -> "missing"
      [] path = "broken.json" -> "malformed"
      [] path \in {"object.json", "empty_object.json"} -> "object"
      [] path = "number.json" -> "scalar"
      [] OTHER -> "records"

\* an item that is not a JSON object: a number of an array, a key of an object
NonDict == [nondict |-> TRUE]

IsDict(item) == "nondict" \notin DOMAIN item

\* what `for item in data` iterates over: the items of an array, the keys
\* of an object
FileData(path) ==
    CASE path = "quiz_dataset.json" ->
           << [question |-> "Q1", choices |-> <<"A", "B">>, correct |-> <<"A">>,
               mode |-> "single", tags |-> <<"x">>],
              [question |-> "Q2", choices |-> <<"A", "B">>],
              [question |-> "Q3", choices |-> <<"A", "B", "C">>,
               correct |-> <<"A", "B">>, mode |-> "multiple",
               tags |-> <<"y", "x">>] >>
      [] path = "other.json" ->
           << [question |-> "Q4", choices |-> <<"A", "B">>, correct |-> <<"B">>,
               mode |-> "multiple", tags |-> <<"y">>],
              [question |-> "Q5", choices |-> <<"A", "B">>, correct |-> <<>>,
               mode |-> "multiple", tags |-> <<"x">>] >>
      [] path = "modes.json" ->
           << [question |-> "Q6", choices |-> <<"A", "B">>,
               correct |-> <<"A", "B">>, mode |-> "checkbox",
               tags |-> <<"y", "y">>],
              [question |-> "Q7", choices |-> <<"A", "B">>, correct |-> <<"A">>,
               tags |-> <<"w">>] >>
      [] path = "pair.json" ->
           << [question |-> "Q9", choices |-> <<"A", "B">>, correct |-> <<"A">>,
               mode |-> "single", tags |-> <<"x">>],
              [question |-> "Q10", choices |-> <<"A", "B">>,
               correct |-> <<"A", "B">>, mode |-> "multiple",
               tags |-> <<"x">>] >>
      [] path = "mixed.json" ->
           << [question |-> "Q8", choices |-> <<"A", "B">>, correct |-> <<"A">>,
               mode |-> "single", tags |-> <<"z">>],
              NonDict >>
      [] path = "object.json" -> << NonDict >>
      [] OTHER -> <<>>

\* item.get(key, default)
Get(item, key, default) == IF key \in DOMAIN item THEN item[key] ELSE default

----------------------------------------------------------------------------
(* Question *)

\* Question.__init__ (list(correct) and `tags or []` keep a list's content)
Question(question, choices, correct, mode, tags) ==
    [question |-> question, choices |-> choices, correct |-> correct,
     mode |-> mode, tags |-> tags]

is_single(q) == q.mode = "single"

is_multiple(q) == q.mode = "multiple"

----------------------------------------------------------------------------
(* QuestionDataset *)

\* the references of the Question objects the k-th replacing load creates
NewRefs(k, data) == [i \in 1..Len(data) |-> <<k, i>>]

\* the loop of load(): one Question per record, in the records' order
LoadedQuestions(k, data) ==
    [ref \in {<<k, i>> : i \in 1..Len(data)} |->
        LET item == data[ref[2]]
        IN  Question(Get(item, "question", ""), Get(item, "choices", <<>>),
                     Get(item, "correct", <<>>), Get(item, "mode", "single"),
                     Get(item, "tags", <<>>))]

\* file_path is None: quiz_dataset.json beside the module
ResolvePath(path) == IF path = None THEN "quiz_dataset.json" ELSE path

\* faulty variant: file_path is recorded before the file is looked for
load_pathfirst(ds, path) ==
    LET fp == ResolvePath(path)
    IN  IF FileKind(fp) = "missing"
        THEN [ds EXCEPT !.err = "FileNotFoundError", !.file_path = fp]
        ELSE IF FileKind(fp) = "malformed"
        THEN [ds EXCEPT !.err = "JSONDecodeError", !.file_path = fp]
        ELSE IF FileKind(fp) = "scalar"
        THEN [ds EXCEPT !.err = "TypeError", !.file_path = fp]
        ELSE IF \E i \in DOMAIN FileData(fp) : ~IsDict(FileData(fp)[i])
        THEN [ds EXCEPT !.err = "AttributeError", !.file_path = fp]
        ELSE LET k == ds.loads + 1
                 data == FileData(fp)
                 made == LoadedQuestions(k, data)
             IN  [questions |-> NewRefs(k, data),
                  file_path |-> fp,
                  qstore |-> [r \in DOMAIN ds.qstore \cup DOMAIN made |->
                                 IF r \in DOMAIN made THEN made[r] ELSE ds.qstore[r]],
                  loads |-> k,
                  err |-> "none"]

\* faulty variant: the new questions are appended to the dataset's list
load_extend(ds, path) ==
    LET fp == ResolvePath(path)
    IN  IF FileKind(fp) = "missing"
        THEN [ds EXCEPT !.err = "FileNotFoundError"]
        ELSE IF FileKind(fp) = "malformed"
        THEN [ds EXCEPT !.err = "JSONDecodeError"]
        ELSE IF FileKind(fp) = "scalar"
        THEN [ds EXCEPT !.err = "TypeError"]
        ELSE IF \E i \in DOMAIN FileData(fp) : ~IsDict(FileData(fp)[i])
        THEN [ds EXCEPT !.err = "AttributeError"]
        ELSE LET k == ds.loads + 1
                 data == FileData(fp)
                 made == LoadedQuestions(k, data)
             IN  [questions |-> ds.questions \o NewRefs(k, data),
                  file_path |-> fp,
                  qstore |-> [r \in DOMAIN ds.qstore \cup DOMAIN made |->
                                 IF r \in DOMAIN made THEN made[r] ELSE ds.qstore[r]],
                  loads |-> k,
                  err |-> "none"]

\* load(file_path) on the dataset ds = [questions, file_path, qstore, loads]:
\* the dataset after the call and the exception raised.  json.load raises
\* on malformed text; iterating a number raises TypeError; item.get on an
\* item that is no object raises AttributeError; the questions are built
\* in a local list and assigned only after the loop
load(ds, path) ==
    LET fp == ResolvePath(path)
    IN  IF FileKind(fp) = "missing"
        THEN [ds EXCEPT !.err = "FileNotFoundError"]
        ELSE IF FileKind(fp) = "malformed"
        THEN [ds EXCEPT !.err = "JSONDecodeError"]
        ELSE IF FileKind(fp) = "scalar"
        THEN [ds EXCEPT !.err = "TypeError"]
        ELSE IF \E i \in DOMAIN FileData(fp) : ~IsDict(FileData(fp)[i])
        THEN [ds EXCEPT !.err = "AttributeError"]
        ELSE LET k == ds.loads + 1
                 data == FileData(fp)
                 made == LoadedQuestions(k, data)
             IN  [questions |-> NewRefs(k, data),
                  file_path |-> fp,
                  qstore |-> [r \in DOMAIN ds.qstore \cup DOMAIN made |->
                                 IF r \in DOMAIN made THEN made[r] ELSE ds.qstore[r]],
                  loads |-> k,
                  err |-> "none"]

\* `not tags`
NotTags(tags) == tags.omitted \/ tags.val = <<>>

\* faulty variant: the dataset's own list is returned when no tag is given
get_questions_by_tags_alias(qs, store, tags) ==
    IF NotTags(tags)
    THEN [alias |-> TRUE, items |-> qs]
    ELSE LET tags_set == ToSet(tags.val)
             Keep(q) == tags_set \cap ToSet(store[q].tags) # {}
         IN  [alias |-> FALSE, items |-> SelectSeq(qs, Keep)]

\* faulty variant: a question is kept only when it carries every tag of the filter
get_questions_by_tags_all(qs, store, tags) ==
    IF NotTags(tags)
    THEN [alias |-> FALSE, items |-> qs]
    ELSE LET tags_set == ToSet(tags.val)
             Keep(q) == tags_set \subseteq ToSet(store[q].tags)
         IN  [alias |-> FALSE, items |-> SelectSeq(qs, Keep)]

\* get_questions_by_tags(tags) on the questions qs: the list returned.
\* alias is TRUE when the list returned is the dataset's own list object;
\* list(...) and the comprehension both build a new list.
get_questions_by_tags(qs, store, tags) ==
    IF NotTags(tags)
    THEN [alias |-> FALSE, items |-> qs]
    ELSE LET tags_set == ToSet(tags.val)
             Keep(q) == tags_set \cap ToSet(store[q].tags) # {}
         IN  [alias |-> FALSE, items |-> SelectSeq(qs, Keep)]

----------------------------------------------------------------------------
(* QuizGenerator *)

\* the largest number of records in a file
MaxPool == CHOOSE m \in 0..8 : /\ \A path \in AllPaths : Len(FileData(path)) <= m
                               /\ \E path \in AllPaths : Len(FileData(path)) = m

\* the orders random.shuffle can leave a list of n elements in
PermsOf == [n \in 0..MaxPool |->
               {p \in [1..n -> 1..n] : \A i, j \in 1..n : p[i] = p[j] => i = j}]

Perms(n) == PermsOf[n]

\* the orders the pool of n elements can be in when it is sliced
ShuffleOrders(n, shuffle) == IF shuffle THEN Perms(n) ELSE {[i \in 1..n |-> i]}

Permute(lst, p) == [i \in 1..Len(lst) |-> lst[p[i]]]

\* lst[:k]
SliceTo(lst, k) ==
    LET n == Len(lst)
        e == IF k < 0 THEN (IF n + k < 0 THEN 0 ELSE n + k) ELSE Min(k, n)
    IN  SubSeq(lst, 1, e)

\* faulty variant: the selection is drawn with random.sample, which refuses a count
\* larger than the pool
generate_sample(qs, store, tags, n_questions, shuffle, p) ==
    LET pool == get_questions_by_tags(qs, store, tags)
        shuffled == IF shuffle THEN Permute(pool.items, p) ELSE pool.items
    IN  IF pool.items = <<>>
        THEN [quiz |-> <<>>, questions |-> qs, err |-> "none"]
        ELSE IF n_questions > Len(pool.items)
        THEN [quiz |-> <<>>, questions |-> qs, err |-> "ValueError"]
        ELSE [quiz |-> SliceTo(shuffled, n_questions), questions |-> qs,
              err |-> "none"]

\* faulty variant: the dataset's list itself is shuffled and sliced
generate_inplace(qs, store, tags, n_questions, shuffle, p) ==
    LET pool == get_questions_by_tags(qs, store, tags)
        shuffled == IF shuffle THEN Permute(pool.items, p) ELSE pool.items
    IN  IF pool.items = <<>>
        THEN [quiz |-> <<>>, questions |-> qs, err |-> "none"]
        ELSE [quiz |-> SliceTo(shuffled, Min(n_questions, Len(shuffled))),
              questions |-> IF shuffle /\ NotTags(tags) THEN shuffled ELSE qs,
              err |-> "none"]

\* faulty variant: the selection is drawn with random.choices, with replacement
generate_choices(qs, store, tags, n_questions, shuffle, p) ==
    LET pool == get_questions_by_tags(qs, store, tags)
        shuffled == IF shuffle THEN Permute(pool.items, p) ELSE pool.items
        k == Min(n_questions, Len(shuffled))
    IN  IF pool.items = <<>>
        THEN [quiz |-> <<>>, questions |-> qs, err |-> "none"]
        ELSE [quiz |-> [i \in 1..k |-> shuffled[1]], questions |-> qs,
              err |-> "none"]

\* faulty variant: the selection is taken from the end of the pool
generate_tail(qs, store, tags, n_questions, shuffle, p) ==
    LET pool == get_questions_by_tags(qs, store, tags)
        shuffled == IF shuffle THEN Permute(pool.items, p) ELSE pool.items
        k == Min(n_questions, Len(shuffled))
    IN  IF pool.items = <<>>
        THEN [quiz |-> <<>>, questions |-> qs, err |-> "none"]
        ELSE [quiz |-> SubSeq(shuffled, Len(shuffled) - k + 1, Len(shuffled)),
              questions |-> qs, err |-> "none"]

\* generate(tags, n_questions, shuffle), p being the order random.shuffle
\* leaves the pool in: the quiz returned, the dataset's list after the call
\* (shuffled with the pool when the pool is that very list) and the
\* exception raised
generate(qs, store, tags, n_questions, shuffle, p) ==
    LET pool == get_questions_by_tags(qs, store, tags)
        shuffled == IF shuffle THEN Permute(pool.items, p) ELSE pool.items
    IN  IF pool.items = <<>>
        THEN [quiz |-> <<>>, questions |-> qs, err |-> "none"]
        ELSE [quiz |-> SliceTo(shuffled, Min(n_questions, Len(shuffled))),
              questions |-> IF pool.alias THEN shuffled ELSE qs,
              err |-> "none"]

----------------------------------------------------------------------------
(* The dataset and the generator: state machine *)

\* tag filters: lists of distinct tags, in any order
TagLists == {t \in BSeq(TagNames, MaxTags) : \A i, j \in DOMAIN t : t[i] = t[j] => i = j}

TagArgs == {Omitted} \cup {[omitted |-> FALSE, val |-> t] : t \in TagLists}

\* QuestionDataset(): the shared instance, nothing loaded
Init ==
    /\ questions = <<>>
    /\ file_path = None
    /\ qstore = <<>>
    /\ loads = 0
    /\ err = "none"
    /\ call = NoCall
    /\ ret = NoRet
    /\ quiz = <<>>
    /\ answers = <<>>
    /\ results = NoResults
    /\ arg_correct = <<>>
    /\ arg_selected = <<>>
    /\ score = NoScore
    /\ AppIdle

\* load(path) on the shared dataset; at most `most` loads replace the questions
LoadWithin(path, most) ==
    LET ds == [questions |-> questions, file_path |-> file_path,
               qstore |-> qstore, loads |-> loads, err |-> "none"]
        after == load(ds, path)
    IN  /\ after.err = "none" => loads < most
        /\ questions' = after.questions
        /\ file_path' = after.file_path
        /\ qstore' = after.qstore
        /\ loads' = after.loads
        /\ err' = after.err
        /\ call' = [op |-> "load", path |-> path]
        /\ UNCHANGED <<ret, quiz, answers, results, scoreVars, appVars>>

Load(path) == LoadWithin(path, MaxLoads)

GetQuestionsByTags(tags) ==
    /\ ret' = [epoch |-> loads, tags |-> tags,
               items |-> get_questions_by_tags(questions, qstore, tags).items]
    /\ err' = "none"
    /\ call' = [op |-> "get_questions_by_tags"]
    /\ UNCHANGED <<dsVars, quiz, answers, results, scoreVars, appVars>>

Generate(tags, n_questions, shuffle) ==
    \E p \in ShuffleOrders(Len(get_questions_by_tags(questions, qstore, tags).items),
                           shuffle) :
        LET out == generate(questions, qstore, tags, n_questions, shuffle, p)
        IN  /\ quiz' = IF out.err = "none" THEN out.quiz ELSE quiz
            /\ questions' = out.questions
            /\ err' = out.err
            /\ call' = [op |-> "generate", tags |-> tags, n |-> n_questions,
                        shuffle |-> shuffle]
            /\ UNCHANGED <<file_path, qstore, loads, ret, answers, results,
                           scoreVars, appVars>>

Next ==
    \/ \E path \in Paths \cup {None} : Load(path)
    \/ \E tags \in TagArgs : GetQuestionsByTags(tags)
    \/ \E tags \in TagArgs, n \in 0..MaxCount, shuffle \in BOOLEAN :
           Generate(tags, n, shuffle)

Spec == Init /\ [][Next]_vars

----------------------------------------------------------------------------
(* QuestionDataset: construction, loading and all_tags from process start *)

MaxReloads == 2

\* the dataset object a holder reads
HolderQuestions == IF holder.same THEN questions ELSE holder.questions

\* faulty variant: every construction makes a new object
new_fresh(ds, inst, path) ==
    LET base == [ds EXCEPT !.questions = <<>>, !.file_path = None]
    IN  [ds |-> IF path # None THEN load(base, path) ELSE base,
         shared |-> ~inst]

\* QuestionDataset(path), ds being the fields of the object _instance
\* names and inst whether there is one: the fields of the object _instance
\* names after the call, and whether that object is the one it named
\* before (or the first one made)
new(ds, inst, path) ==
    LET base == IF inst THEN ds
                ELSE [ds EXCEPT !.questions = <<>>, !.file_path = None]
    IN  [ds |-> IF path # None THEN load(base, path) ELSE base,
         shared |-> TRUE]

\* faulty variant: the tags of every Question object ever built are collected
all_tags_store(qs, store) ==
    UNION {ToSet(store[r].tags) : r \in DOMAIN store}

RECURSIVE all_tags(_, _)
\* all_tags(): tags.update(q.tags) for each question in turn
all_tags(qs, store) ==
    IF qs = <<>> THEN {}
    ELSE all_tags(SubSeq(qs, 1, Len(qs) - 1), store)
             \cup ToSet(store[qs[Len(qs)]].tags)

\* the process starts: no QuestionDataset constructed yet
InitLoad ==
    /\ questions = <<>>
    /\ file_path = None
    /\ qstore = <<>>
    /\ loads = 0
    /\ err = "none"
    /\ call = NoCall
    /\ ret = NoRet
    /\ quiz = <<>>
    /\ answers = <<>>
    /\ results = NoResults
    /\ arg_correct = <<>>
    /\ arg_selected = <<>>
    /\ score = NoScore
    /\ instance = FALSE
    /\ holder = NoHolder
    /\ tagret = NoTagRet
    /\ stats = NoStats
    /\ ss = InitialSession
    /\ view = "none"

\* QuestionDataset(path); the first construction that returns is followed
\* by QuizGenerator(dataset), which keeps the object returned
New(path) ==
    LET ds == [questions |-> questions, file_path |-> file_path,
               qstore |-> qstore, loads |-> loads, err |-> "none"]
        out == new(ds, instance, path)
    IN  /\ (path # None /\ out.ds.err = "none") => loads < MaxReloads
        /\ questions' = out.ds.questions
        /\ file_path' = out.ds.file_path
        /\ qstore' = out.ds.qstore
        /\ loads' = out.ds.loads
        /\ err' = out.ds.err
        /\ instance' = TRUE
        /\ holder' = IF ~holder.held
                      THEN (IF out.ds.err = "none" THEN SharedHolder ELSE holder)
                      ELSE IF out.shared THEN holder
                      ELSE [held |-> TRUE, same |-> FALSE,
                            questions |-> HolderQuestions]
        /\ call' = [op |-> "new", path |-> path, shared |-> out.shared]
        /\ UNCHANGED <<ret, quiz, answers, results, scoreVars, tagret, stats,
                       ss, view>>

\* load(path) on the object a construction returned
Reload(path) ==
    /\ instance
    /\ LoadWithin(path, MaxReloads)

AllTags ==
    /\ instance
    /\ tagret' = [epoch |-> loads, tags |-> all_tags(questions, qstore)]
    /\ err' = "none"
    /\ call' = [op |-> "all_tags"]
    /\ UNCHANGED <<dsVars, ret, quiz, answers, results, scoreVars, instance,
                   holder, stats, ss, view>>

NextLoad ==
    \/ \E path \in AllPaths \cup {None} : New(path)
    \/ \E path \in AllPaths \cup {None} : Reload(path)
    \/ AllTags

SpecLoad == InitLoad /\ [][NextLoad]_vars

----------------------------------------------------------------------------
(* QuizCorrector.correct_quiz *)

MaxQuiz == 2

AnswerOptions == {"A", "B"}

\* answers.get(i, [])
AnswerAt(ans, i) == IF i \in DOMAIN ans THEN ans[i] ELSE <<>>

RECURSIVE SumScores(_)
\* total_points after the loop: the scores added in quiz order
SumScores(recs) ==
    IF recs = <<>> THEN Zero
    ELSE RatAdd(SumScores(SubSeq(recs, 1, Len(recs) - 1)), recs[Len(recs)].score)

\* the record appended for the question at sequence index i, `selected`
\* being the list looked up for it. list(q.correct) and list(selected) are
\* new list objects (alias FALSE), not the question's or the answer's list.
QuestionRecord(i, q, selected, s) ==
    [index |-> i - 1,
     question |-> q.question,
     mode |-> q.mode,
     correct |-> [alias |-> FALSE, val |-> q.correct],
     selected |-> [alias |-> FALSE, val |-> selected],
     score |-> s,
     max_score |-> One]

\* faulty variant: the answer of the next position is looked up
correct_quiz_shifted(qz, store, ans) ==
    LET per_question ==
            [i \in 1..Len(qz) |->
                LET q == store[qz[i]]
                    selected == AnswerAt(ans, i)
                    s == IF is_single(q) THEN score_single(q.correct, selected)
                         ELSE score_multiple(q.correct, selected)
                IN  QuestionRecord(i, q, selected, s)]
        total_points == SumScores(per_question)
    IN  [per_question |-> per_question,
         total_score |-> IF qz # <<>>
                         THEN RatMul(RatDiv(total_points, Num(Len(qz))), Num(100))
                         ELSE Zero]

\* faulty variant: the total is divided by the number of answers given
correct_quiz_answered(qz, store, ans) ==
    LET per_question ==
            [i \in 1..Len(qz) |->
                LET q == store[qz[i]]
                    selected == AnswerAt(ans, i - 1)
                    s == IF is_single(q) THEN score_single(q.correct, selected)
                         ELSE score_multiple(q.correct, selected)
                IN  QuestionRecord(i, q, selected, s)]
        total_points == SumScores(per_question)
    IN  [per_question |-> per_question,
         total_score |-> IF DOMAIN ans # {}
                         THEN RatMul(RatDiv(total_points,
                                            Num(Cardinality(DOMAIN ans))), Num(100))
                         ELSE Zero]

\* faulty variant: the records keep the question's and the answer's own lists
correct_quiz_alias(qz, store, ans) ==
    LET per_question ==
            [i \in 1..Len(qz) |->
                LET q == store[qz[i]]
                    selected == AnswerAt(ans, i - 1)
                    s == IF is_single(q) THEN score_single(q.correct, selected)
                         ELSE score_multiple(q.correct, selected)
                IN  [QuestionRecord(i, q, selected, s) EXCEPT
                        !.correct = [alias |-> TRUE, val |-> <<>>],
                        !.selected = [alias |-> (i - 1) \in DOMAIN ans, val |-> <<>>]]]
        total_points == SumScores(per_question)
    IN  [per_question |-> per_question,
         total_score |-> IF qz # <<>>
                         THEN RatMul(RatDiv(total_points, Num(Len(qz))), Num(100))
                         ELSE Zero]

\* correct_quiz(questions, answers): qz the list of Question references,
\* store the objects, ans the mapping position -> selected list
correct_quiz(qz, store, ans) ==
    LET per_question ==
            [i \in 1..Len(qz) |->
                LET q == store[qz[i]]
                    selected == AnswerAt(ans, i - 1)
                    s == IF is_single(q) THEN score_single(q.correct, selected)
                         ELSE score_multiple(q.correct, selected)
                IN  QuestionRecord(i, q, selected, s)]
        total_points == SumScores(per_question)
    IN  [per_question |-> per_question,
         total_score |-> IF qz # <<>>
                         THEN RatMul(RatDiv(total_points, Num(Len(qz))), Num(100))
                         ELSE Zero]

\* the content of a record's `correct` / `selected` list
RecCorrect(r) ==
    IF r.correct.alias THEN qstore[quiz[r.index + 1]].correct ELSE r.correct.val

RecSelected(r) ==
    IF r.selected.alias THEN answers[r.index] ELSE r.selected.val

----------------------------------------------------------------------------
(* The corrector applied to a quiz and an answers mapping: state machine *)

\* selections: lists of distinct options, in any order
AnswerSels == {t \in BSeq(AnswerOptions, Cardinality(AnswerOptions)) :
                  \A i, j \in DOMAIN t : t[i] = t[j] => i = j}

\* mappings from some of the keys 0..MaxQuiz to selections
AnswerMaps == UNION {[keys -> AnswerSels] : keys \in SUBSET (0..MaxQuiz)}

EmptyDataset ==
    [questions |-> <<>>, file_path |-> None, qstore |-> <<>>, loads |-> 0,
     err |-> "none"]

\* a dataset loaded from a readable file, a quiz over its questions and
\* the answers a caller holds for it
InitCorrect ==
    /\ \E path \in {pa \in AllPaths : load(EmptyDataset, pa).err = "none"} :
          LET ds == load(EmptyDataset, path)
          IN  /\ questions = ds.questions
              /\ file_path = ds.file_path
              /\ qstore = ds.qstore
              /\ loads = ds.loads
    /\ quiz \in BSeq(ToSet(questions), MaxQuiz)
    /\ answers \in AnswerMaps
    /\ results = NoResults
    /\ err = "none"
    /\ call = NoCall
    /\ ret = NoRet
    /\ arg_correct = <<>>
    /\ arg_selected = <<>>
    /\ score = NoScore
    /\ AppIdle

\* finish_quiz ends with the statistics: no correction follows them
CorrectQuiz ==
    /\ call.op # "module_stats"
    /\ results' = correct_quiz(quiz, qstore, answers)
    /\ err' = "none"
    /\ call' = [op |-> "correct_quiz"]
    /\ UNCHANGED <<dsVars, ret, quiz, answers, scoreVars, appVars>>

\* the caller appends an entry to the `selected` list of the record at
\* sequence index i of the result just returned: the list object changes,
\* and with it every holder of that object
MutateSelected(i) ==
    /\ call.op = "correct_quiz"
    /\ i \in DOMAIN results.per_question
    /\ LET r == results.per_question[i]
           changed == Append(RecSelected(r), "Z")
       IN  IF r.selected.alias
           THEN /\ answers' = [answers EXCEPT ![r.index] = changed]
                /\ UNCHANGED results
           ELSE /\ results' = [results EXCEPT !.per_question[i].selected.val = changed]
                /\ UNCHANGED answers
    /\ err' = "none"
    /\ call' = [op |-> "mutate"]
    /\ UNCHANGED <<dsVars, ret, quiz, scoreVars, appVars>>

\* the same for the record's `correct` list
MutateCorrect(i) ==
    /\ call.op = "correct_quiz"
    /\ i \in DOMAIN results.per_question
    /\ LET r == results.per_question[i]
           changed == Append(RecCorrect(r), "Z")
       IN  IF r.correct.alias
           THEN /\ qstore' = [qstore EXCEPT ![quiz[i]].correct = changed]
                /\ UNCHANGED results
           ELSE /\ results' = [results EXCEPT !.per_question[i].correct.val = changed]
                /\ UNCHANGED qstore
    /\ err' = "none"
    /\ call' = [op |-> "mutate"]
    /\ UNCHANGED <<questions, file_path, loads, ret, quiz, answers, scoreVars, appVars>>

----------------------------------------------------------------------------
(* QuizView.calculate_module_stats (app.py) *)

\* get_feedback(score): the colour of the feedback
get_feedback(s) ==
    IF RatLeq(Num(90), s) THEN "#10b981"
    ELSE IF RatLeq(Num(75), s) THEN "#22c55e"
    ELSE IF RatLeq(Num(60), s) THEN "#84cc16"
    ELSE IF RatLeq(Num(50), s) THEN "#eab308"
    ELSE IF RatLeq(Num(40), s) THEN "#f59e0b"
    ELSE IF RatLeq(Num(25), s) THEN "#f97316"
    ELSE "#ef4444"

\* the modules of a question: its tag list, or the implicit module when the
\* list is empty (the source names it with the French word for General)
ModulesOf(q) == IF q.tags = <<>> THEN <<"General">> ELSE q.tags

RECURSIVE Contributions(_, _, _)
\* the two nested loops: one (module, score) pair per question and entry of
\* its module list, in iteration order
Contributions(qz, store, per_question) ==
    IF qz = <<>> THEN <<>>
    ELSE LET n == Len(qz)
             mods == ModulesOf(store[qz[n]])
         IN  Contributions(SubSeq(qz, 1, n - 1), store, per_question)
                 \o [k \in 1..Len(mods) |->
                        [module |-> mods[k], score |-> per_question[n].score]]

RECURSIVE FirstSeen(_)
\* the keys of module_scores, in insertion order
FirstSeen(cs) ==
    IF cs = <<>> THEN <<>>
    ELSE LET front == FirstSeen(SubSeq(cs, 1, Len(cs) - 1))
             m == cs[Len(cs)].module
         IN  IF \E k \in DOMAIN front : front[k] = m THEN front
             ELSE Append(front, m)

\* sorted(..., key=score, reverse=True) is stable: x goes behind every
\* entry whose score is not smaller
InsertByScore(sorted, x) ==
    LET pos == Cardinality({i \in DOMAIN sorted : RatLeq(x.score, sorted[i].score)})
    IN  SubSeq(sorted, 1, pos) \o <<x>> \o SubSeq(sorted, pos + 1, Len(sorted))

RECURSIVE SortedByScore(_)
SortedByScore(lst) ==
    IF lst = <<>> THEN <<>>
    ELSE InsertByScore(SortedByScore(SubSeq(lst, 1, Len(lst) - 1)), lst[Len(lst)])

\* calculate_module_stats(questions, results)
calculate_module_stats(qz, store, res) ==
    LET cs == Contributions(qz, store, res.per_question)
        mods == FirstSeen(cs)
        Stat(m) ==
            LET Of(c) == c.module = m
                mine == SelectSeq(cs, Of)
                avg_score == RatMul(RatDiv(SumScores(mine), Num(Len(mine))), Num(100))
            IN  [module |-> m, score |-> avg_score, count |-> Len(mine),
                 feedback |-> get_feedback(avg_score)]
    IN  SortedByScore([k \in 1..Len(mods) |-> Stat(mods[k])])

\* finish_quiz computes the statistics from the result correct_quiz returned
ModuleStats ==
    /\ call.op = "correct_quiz"
    /\ stats' = [computed |-> TRUE,
                 modules |-> calculate_module_stats(quiz, qstore, results)]
    /\ err' = "none"
    /\ call' = [op |-> "module_stats"]
    /\ UNCHANGED <<dsVars, ret, quiz, answers, results, scoreVars, instance,
                   holder, tagret, ss, view>>

NextCorrect ==
    \/ CorrectQuiz
    \/ \E i \in 1..MaxQuiz : MutateSelected(i)
    \/ \E i \in 1..MaxQuiz : MutateCorrect(i)
    \/ ModuleStats

SpecCorrect == InitCorrect /\ [][NextCorrect]_vars

----------------------------------------------------------------------------
(* The Streamlit session (app.py): the script runs main() from the top on  *)
(* every rerun; a click runs its handler and ends in st.rerun().  A click  *)
(* is taken when a run has finished displaying a page.                     *)

SliderMin == 5

SliderMax == 20

RecoveryCount == 10

MaxHistory == 1

IdleViews == {"home", "question", "results"}

\* d[k] = v on a dict
Put(d, k, v) == [x \in DOMAIN d \cup {k} |-> IF x = k THEN v ELSE d[x]]

\* d.get(k, [])
GetList(d, k) == IF k \in DOMAIN d THEN d[k] ELSE <<>>

\* lst.remove(x): the first occurrence is taken out
RemoveFirst(lst, x) ==
    LET at == CHOOSE i \in DOMAIN lst : lst[i] = x /\ \A j \in 1..(i - 1) : lst[j] # x
    IN  SubSeq(lst, 1, at - 1) \o SubSeq(lst, at + 1, Len(lst))

\* faulty variant: selected_options is kept from the quiz before
initialize_quiz_keep(sess, qz) ==
    [sess EXCEPT !.step = 0, !.quiz_set = TRUE, !.quiz_generated = TRUE,
                 !.quiz_finished = FALSE]

\* initialize_quiz(selected_tags, n_questions), qz being the list generate
\* returned: the session after it (answers is reset by the action)
initialize_quiz(sess, qz) ==
    [sess EXCEPT !.step = 0, !.quiz_set = TRUE, !.quiz_generated = TRUE,
                 !.quiz_finished = FALSE, !.selected_options = <<>>]

\* faulty variant: every key of the session is deleted, quiz_history included
reset_quiz_all(sess) ==
    [sess EXCEPT !.step = 0, !.quiz_set = FALSE, !.quiz_generated = FALSE,
                 !.quiz_finished = FALSE, !.selected_options = <<>>,
                 !.quiz_history = <<>>]

\* reset_quiz(): every key but quiz_history is deleted, then the five keys
\* are set; the key quiz is set to None again by the next run
reset_quiz(sess) ==
    [sess EXCEPT !.step = 0, !.quiz_set = FALSE, !.quiz_generated = FALSE,
                 !.quiz_finished = FALSE, !.selected_options = <<>>]

\* the index test of main
InvalidIndex(sess, qz) == sess.step < 0 \/ sess.step >= Len(qz)

\* _render_options_with_buttons: the key of the question shown is created
render_options(sel, question_index) ==
    IF question_index \in DOMAIN sel THEN sel ELSE Put(sel, question_index, <<>>)

\* faulty variant: the option is added to the selection in both modes
toggle_option_append(q, sel, question_index, option) ==
    LET cur == GetList(sel, question_index)
    IN  Put(sel, question_index,
            IF Contains(cur, option) THEN RemoveFirst(cur, option)
            ELSE Append(cur, option))

\* _toggle_option(question, question_index, option): selected_options after
\* it; answers[question_index] is then set to the list at question_index
toggle_option(q, sel, question_index, option) ==
    LET cur == GetList(sel, question_index)
    IN  Put(sel, question_index,
            IF is_single(q) THEN <<option>>
            ELSE IF Contains(cur, option) THEN RemoveFirst(cur, option)
            ELSE Append(cur, option))

\* render_navigation: the buttons shown at current_index of total_questions
previous_offered(current_index, total_questions) == current_index > 0

\* faulty variant: Suivant is shown at the last question too
next_offered_last(current_index, total_questions) == current_index < total_questions

next_offered(current_index, total_questions) == current_index < total_questions - 1

finish_offered(current_index, total_questions) ==
    ~next_offered(current_index, total_questions)

\* the loop opening finish_quiz: the answers handed to correct_quiz
finish_answers(qz, sel, ans) ==
    [i \in DOMAIN ans \cup 0..(Len(qz) - 1) |->
        IF i \in 0..(Len(qz) - 1) /\ i \in DOMAIN sel THEN sel[i]
        ELSE IF i \in DOMAIN ans THEN ans[i]
        ELSE <<>>]

\* _save_to_history(results): the record appended.  The timestamp is left
\* out; tags is list(set(...)), whose order is not fixed: a set here
history_record(qz, store, res) ==
    [total_score |-> res.total_score,
     n_questions |-> Len(qz),
     tags |-> UNION {ToSet(store[qz[i]].tags) : i \in DOMAIN qz},
     per_question |-> res.per_question,
     module_stats |-> calculate_module_stats(qz, store, res)]

\* what the multiselect offers: lists of distinct tags of the dataset
SelectableTags ==
    {t \in BSeq(all_tags(questions, qstore), MaxTags) :
        \A i, j \in DOMAIN t : t[i] = t[j] => i = j}

\* the contents the dataset file of the page is given: no record, or a
\* single-choice and a multiple-choice question
SessionPaths == {"empty.json", "pair.json"}

\* the values the slider is set to: its least, default and greatest one
SliderValues == {SliderMin, RecoveryCount, SliderMax}

\* load_dataset() has run on a readable file of records; the first script
\* run is about to execute main()
InitSession ==
    /\ \E path \in SessionPaths :
          LET ds == load(EmptyDataset, path)
          IN  /\ questions = ds.questions
              /\ file_path = ds.file_path
              /\ qstore = ds.qstore
              /\ loads = ds.loads
    /\ err = "none"
    /\ call = NoCall
    /\ ret = NoRet
    /\ quiz = <<>>
    /\ answers = <<>>
    /\ results = NoResults
    /\ arg_correct = <<>>
    /\ arg_selected = <<>>
    /\ score = NoScore
    /\ instance = TRUE
    /\ holder = SharedHolder
    /\ tagret = NoTagRet
    /\ stats = NoStats
    /\ ss = InitialSession
    /\ view = "run"

\* the button of the sidebar: initialize_quiz(selected_tags, n_questions)
ClickGenerate(selected_tags, n_questions) ==
    /\ view \in IdleViews
    /\ LET tags == [omitted |-> FALSE, val |-> selected_tags]
       IN  \E p \in ShuffleOrders(Len(get_questions_by_tags(questions, qstore, tags).items),
                                   TRUE) :
              LET out == generate(questions, qstore, tags, n_questions, TRUE, p)
              IN  /\ quiz' = out.quiz
                  /\ questions' = out.questions
                  /\ ss' = initialize_quiz(ss, out.quiz)
    /\ answers' = <<>>
    /\ view' = "rerun"
    /\ err' = "none"
    /\ call' = [op |-> "click_generate"]
    /\ UNCHANGED <<file_path, qstore, loads, ret, results, scoreVars, instance,
                   holder, tagret, stats>>

\* the button of the sidebar shown once a quiz was generated, and the button
\* of the results page: reset_quiz(), which deletes results and module_stats
ClickNewQuiz ==
    /\ view \in IdleViews
    /\ ss.quiz_generated
    /\ ss' = reset_quiz(ss)
    /\ quiz' = <<>>
    /\ answers' = <<>>
    /\ results' = NoResults
    /\ stats' = NoStats
    /\ view' = "rerun"
    /\ err' = "none"
    /\ call' = [op |-> "click_new_quiz"]
    /\ UNCHANGED <<dsVars, ret, scoreVars, instance, holder, tagret>>

\* render_navigation: the buttons Suivant and Précédent
ClickNext ==
    /\ view = "question"
    /\ next_offered(ss.step, Len(quiz))
    /\ ss' = [ss EXCEPT !.step = @ + 1]
    /\ view' = "rerun"
    /\ err' = "none"
    /\ call' = [op |-> "click_next"]
    /\ UNCHANGED <<dsVars, ret, quiz, answers, results, scoreVars, instance,
                   holder, tagret, stats>>

ClickPrevious ==
    /\ view = "question"
    /\ previous_offered(ss.step, Len(quiz))
    /\ ss' = [ss EXCEPT !.step = @ - 1]
    /\ view' = "rerun"
    /\ err' = "none"
    /\ call' = [op |-> "click_previous"]
    /\ UNCHANGED <<dsVars, ret, quiz, answers, results, scoreVars, instance,
                   holder, tagret, stats>>

\* the button of an option of the question shown: _toggle_option
ClickOption ==
    /\ view = "question"
    /\ \E k \in DOMAIN qstore[quiz[ss.step + 1]].choices :
          LET q == qstore[quiz[ss.step + 1]]
              sel == toggle_option(q, ss.selected_options, ss.step, q.choices[k])
          IN  /\ ss' = [ss EXCEPT !.selected_options = sel]
              /\ answers' = Put(answers, ss.step, sel[ss.step])
              /\ call' = [op |-> "toggle", index |-> ss.step, option |-> q.choices[k]]
    /\ view' = "rerun"
    /\ err' = "none"
    /\ UNCHANGED <<dsVars, ret, quiz, results, scoreVars, instance, holder,
                   tagret, stats>>

\* render_navigation: the button Réinitialiser
ClickClear ==
    /\ view = "question"
    /\ ss' = [ss EXCEPT !.selected_options = Put(@, ss.step, <<>>)]
    /\ answers' = Put(answers, ss.step, <<>>)
    /\ view' = "rerun"
    /\ err' = "none"
    /\ call' = [op |-> "click_clear", index |-> ss.step]
    /\ UNCHANGED <<dsVars, ret, quiz, results, scoreVars, instance, holder,
                   tagret, stats>>

\* render_navigation: the button Terminer le quiz, finish_quiz().  The keys
\* quiz_questions and user_answers, read by the results page only, are
\* left out; at most MaxHistory quizzes are finished
ClickFinish ==
    /\ view = "question"
    /\ finish_offered(ss.step, Len(quiz))
    /\ Len(ss.quiz_history) < MaxHistory
    /\ LET given == finish_answers(quiz, ss.selected_options, answers)
           res == correct_quiz(quiz, qstore, given)
       IN  /\ answers' = given
           /\ results' = res
           /\ stats' = [computed |-> TRUE,
                        modules |-> calculate_module_stats(quiz, qstore, res)]
           /\ ss' = [ss EXCEPT !.quiz_history = Append(@, history_record(quiz, qstore, res)),
                               !.quiz_finished = TRUE]
    /\ view' = "rerun"
    /\ err' = "none"
    /\ call' = [op |-> "click_finish"]
    /\ UNCHANGED <<dsVars, ret, quiz, scoreVars, instance, holder, tagret>>

\* st.rerun(): the script starts again from the top
Rerun ==
    /\ view = "rerun"
    /\ view' = "run"
    /\ call' = [op |-> "rerun"]
    /\ UNCHANGED <<dsVars, err, ret, quiz, answers, results, scoreVars, instance,
                   holder, tagret, stats, ss>>

\* main(): the results, the current question, or the home page; on an
\* index outside the quiz, initialize_quiz([], 10) and st.rerun()
Main ==
    /\ view = "run"
    /\ err' = "none"
    /\ IF ss.quiz_finished
       THEN /\ view' = "results"
            /\ call' = [op |-> "main", recovered |-> FALSE]
            /\ UNCHANGED <<questions, quiz, answers, ss>>
       ELSE IF ss.quiz_generated /\ ss.quiz_set
       THEN IF InvalidIndex(ss, quiz)
            THEN LET tags == [omitted |-> FALSE, val |-> <<>>]
                 IN  \E p \in ShuffleOrders(
                                Len(get_questions_by_tags(questions, qstore, tags).items),
                                TRUE) :
                        LET out == generate(questions, qstore, tags, RecoveryCount,
                                            TRUE, p)
                        IN  /\ quiz' = out.quiz
                            /\ questions' = out.questions
                            /\ ss' = initialize_quiz(ss, out.quiz)
                            /\ answers' = <<>>
                            /\ view' = "rerun"
                            /\ call' = [op |-> "main", recovered |-> TRUE]
            ELSE /\ view' = "question"
                 /\ ss' = [ss EXCEPT !.selected_options = render_options(@, ss.step)]
                 /\ call' = [op |-> "main", recovered |-> FALSE]
                 /\ UNCHANGED <<questions, quiz, answers>>
       ELSE /\ view' = "home"
            /\ call' = [op |-> "main", recovered |-> FALSE]
            /\ UNCHANGED <<questions, quiz, answers, ss>>
    /\ UNCHANGED <<file_path, qstore, loads, ret, results, scoreVars, instance,
                   holder, tagret, stats>>

NextSession ==
    \/ \E t \in SelectableTags, n \in SliderValues : ClickGenerate(t, n)
    \/ ClickNewQuiz
    \/ ClickNext
    \/ ClickPrevious
    \/ ClickOption
    \/ ClickClear
    \/ ClickFinish
    \/ Rerun
    \/ Main

SpecSession == InitSession /\ [][NextSession]_vars

\* a script run that was started is carried out
SpecSessionFair == SpecSession /\ WF_vars(Main) /\ WF_vars(Rerun)

----------------------------------------------------------------------------
(* C1: score_single returns 1.0 exactly when correct is non-empty, exactly *)
(* one option is selected and it is a member of correct; otherwise 0.0.    *)
(* Its result is never a value other than 0.0 or 1.0.                      *)
C1_ScoreSingle ==
    (score.fn = "single") =>
        /\ score.val \in {Zero, One}
        /\ score.val = One <=>
               /\ Len(arg_correct) > 0
               /\ Len(arg_selected) = 1
               /\ arg_selected[1] \in ToSet(arg_correct)

C1_Witness ==
    /\ score.fn = "single"
    /\ score.val = One
    /\ Len(arg_correct) = 2

(* C2: for non-empty C, score_multiple(C, S) =                             *)
(* max(0, (|C n S| - |S \ C|) / |C|); for empty C or empty S it is 0.      *)
C2_ScoreMultiple ==
    (score.fn = "multiple") =>
        LET C == ToSet(arg_correct)
            S == ToSet(arg_selected)
            good == Cardinality(C \cap S)
            bad == Cardinality(S \ C)
        IN  /\ C # {} => score.val = (IF good - bad > 0
                                      THEN Rat(good - bad, Cardinality(C))
                                      ELSE Zero)
            /\ (C = {} \/ S = {}) => score.val = Zero

C2_Witness ==
    /\ score.fn = "multiple"
    /\ ToSet(arg_correct) = {"A", "B"}
    /\ ToSet(arg_selected) = {"A", "B", "C"}
    /\ score.val = Rat(1, 2)

----------------------------------------------------------------------------
(* Helpers of the statements below *)

\* the mapping ans without its keys that are no position of a quiz of n questions
OnPositions(ans, n) == [k \in DOMAIN ans \cap 0..(n - 1) |-> ans[k]]

\* the positions of qs whose question has a tag in T
Matching(qs, store, T) == {i \in DOMAIN qs : ToSet(store[qs[i]].tags) \cap T # {}}

\* the k-th smallest element of the set of integers P
Nth(P, k) == CHOOSE i \in P : Cardinality({j \in P : j < i}) = k - 1

Corrected == call.op = "correct_quiz"

(* C3: correct_quiz emits one record per quiz position, in quiz order;     *)
(* record i carries index i and the text, mode and correct answers of the  *)
(* question at position i, the selection answers[i] (empty when i is no    *)
(* key), and the score of the strategy of the question's mode.  Keys of    *)
(* answers that are no position of the quiz have no effect.                *)
C3_RecordPerPosition ==
    Corrected =>
        /\ Len(results.per_question) = Len(quiz)
        /\ \A i \in DOMAIN quiz :
              LET r == results.per_question[i]
                  q == qstore[quiz[i]]
                  sel == IF (i - 1) \in DOMAIN answers THEN answers[i - 1] ELSE <<>>
              IN  /\ r.index = i - 1
                  /\ r.question = q.question
                  /\ r.mode = q.mode
                  /\ RecCorrect(r) = q.correct
                  /\ RecSelected(r) = sel
                  /\ q.mode = "single" => r.score = score_single(q.correct, sel)
                  /\ q.mode = "multiple" => r.score = score_multiple(q.correct, sel)
        /\ results = correct_quiz(quiz, qstore, OnPositions(answers, Len(quiz)))

C3_Witness ==
    /\ Corrected
    /\ Len(quiz) = 2
    /\ DOMAIN answers = {1, 2}
    /\ answers[1] # <<>>
    /\ qstore[quiz[1]].mode = "single"
    /\ qstore[quiz[2]].mode = "multiple"
    /\ results.per_question[1].selected.val = <<>>
    /\ results.per_question[2].score = Rat(1, 2)

(* C4: total_score is 100 times the sum of the per-question scores divided *)
(* by the number of questions; for a quiz with no question it is 0 and the *)
(* per-question list is empty.                                             *)
C4_TotalScore ==
    Corrected =>
        LET sum == SumScores(results.per_question)
            n == Len(quiz)
            total == results.total_score
        IN  /\ n > 0 => total[1] * sum[2] * n = 100 * sum[1] * total[2]
            /\ n = 0 => (total = Zero /\ results.per_question = <<>>)
            /\ err = "none"

C4_Witness ==
    /\ Corrected
    /\ Len(quiz) = 2
    /\ results.per_question[1].score = One
    /\ results.per_question[2].score = Rat(1, 2)
    /\ results.total_score = Rat(75, 1)

(* C5: every per-question score of correct_quiz lies in [0, 1] and the     *)
(* total_score lies in [0, 100], for questions of either mode and any      *)
(* correct set.                                                            *)
C5_ScoreBounds ==
    Corrected =>
        /\ \A i \in DOMAIN results.per_question :
              /\ RatLeq(Zero, results.per_question[i].score)
              /\ RatLeq(results.per_question[i].score, One)
        /\ RatLeq(Zero, results.total_score)
        /\ RatLeq(results.total_score, Rat(100, 1))

C5_Witness ==
    /\ Corrected
    /\ Len(quiz) = 2
    /\ qstore[quiz[1]].mode = "multiple"
    /\ qstore[quiz[1]].correct = <<"B">>
    /\ 0 \in DOMAIN answers
    /\ answers[0] = <<"A">>
    /\ results.per_question[1].score = Zero
    /\ qstore[quiz[2]].correct = <<>>
    /\ results.total_score = Zero

(* C6: correct_quiz and any later change of a record it returned leave the *)
(* quiz, its questions, the dataset's questions and the answers mapping    *)
(* unchanged; the lists in the records are copies.                         *)
C6_CorrectQuizFrame ==
    [][/\ quiz' = quiz
       /\ qstore' = qstore
       /\ questions' = questions
       /\ answers' = answers
       /\ call'.op = "correct_quiz" =>
             \A i \in DOMAIN results'.per_question :
                /\ ~results'.per_question[i].correct.alias
                /\ ~results'.per_question[i].selected.alias]_vars

C6_Witness ==
    /\ call.op = "mutate"
    /\ Len(quiz) = 2
    /\ 1 \in DOMAIN answers
    /\ answers[1] = <<"B", "A">>
    /\ results.per_question[2].selected.val = <<"B", "A", "Z">>
    /\ results.per_question[2].correct.val = qstore[quiz[2]].correct

(* C7: get_questions_by_tags(T) returns, in load order and without         *)
(* repetition, exactly the loaded questions with a tag in T when T is not  *)
(* empty, and the whole question sequence when T is empty or omitted.      *)
C7_FilterByTags ==
    call.op = "get_questions_by_tags" =>
        LET T == ToSet(ret.tags.val)
            kept == Matching(questions, qstore, T)
        IN  /\ (ret.tags.omitted \/ ret.tags.val = <<>>) => ret.items = questions
            /\ (~ret.tags.omitted /\ ret.tags.val # <<>>) =>
                  /\ Len(ret.items) = Cardinality(kept)
                  /\ \A k \in DOMAIN ret.items : ret.items[k] = questions[Nth(kept, k)]

C7_Witness ==
    /\ call.op = "get_questions_by_tags"
    /\ ret.tags.val = <<"y", "x">>
    /\ Len(questions) = 3
    /\ ret.items = <<questions[1], questions[3]>>

(* C8: two calls of get_questions_by_tags with the same filter, on a       *)
(* dataset not reloaded between them, return identical sequences, whatever *)
(* generate calls were made in between.                                    *)
C8_FilterDeterministic ==
    [][(/\ call'.op = "get_questions_by_tags"
        /\ ret.epoch = loads
        /\ ret'.tags = ret.tags) => ret'.items = ret.items]_vars

C8_Witness ==
    /\ call.op = "generate"
    /\ call.shuffle
    /\ call.tags = Omitted
    /\ ret.epoch = loads
    /\ ret.tags = Omitted
    /\ Len(ret.items) = 3
    /\ ret.items = questions
    /\ quiz = <<questions[3], questions[1], questions[2]>>

(* C9: generate never changes the dataset: the question sequence and every *)
(* question's fields are as before the call, and the list it shuffles is   *)
(* not the dataset's own.                                                  *)
C9_GenerateFrame ==
    [][call'.op = "generate" =>
          /\ questions' = questions
          /\ qstore' = qstore
          /\ file_path' = file_path
          /\ ~get_questions_by_tags(questions, qstore, call'.tags).alias]_vars

C9_Witness ==
    /\ call.op = "generate"
    /\ call.shuffle
    /\ call.tags = [omitted |-> FALSE, val |-> <<>>]
    /\ Len(questions) = 3
    /\ quiz = <<questions[2], questions[1]>>

(* C10: for every filter and every count >= 0, generate raises no error    *)
(* and returns min(count, pool size) questions: the whole pool when count  *)
(* exceeds it, an empty quiz when count is 0 or the pool is empty.         *)
C10_GenerateCount ==
    (call.op = "generate" /\ call.n >= 0) =>
        LET pool == get_questions_by_tags(questions, qstore, call.tags).items
        IN  /\ err = "none"
            /\ Len(quiz) = Min(call.n, Len(pool))
            /\ call.n > Len(pool) => ToSet(quiz) = ToSet(pool)
            /\ (call.n = 0 \/ pool = <<>>) => quiz = <<>>

C10_Witness ==
    /\ call.op = "generate"
    /\ call.n = 3
    /\ call.tags = [omitted |-> FALSE, val |-> <<"x">>]
    /\ Len(questions) = 3
    /\ Len(quiz) = 2

(* C11: every question of the quiz generate returns is a question object  *)
(* of the pool get_questions_by_tags gives for the same filter, and no     *)
(* pool position is used twice, whether shuffle is true or false.          *)
C11_QuizFromPool ==
    call.op = "generate" =>
        LET pool == get_questions_by_tags(questions, qstore, call.tags).items
        IN  \E pos \in [DOMAIN quiz -> DOMAIN pool] :
               /\ \A i \in DOMAIN quiz : quiz[i] = pool[pos[i]]
               /\ \A i, j \in DOMAIN quiz : pos[i] = pos[j] => i = j

C11_Witness ==
    /\ call.op = "generate"
    /\ ~call.shuffle
    /\ call.n = 2
    /\ call.tags = [omitted |-> FALSE, val |-> <<"x">>]
    /\ Len(questions) = 3
    /\ quiz = <<questions[1], questions[3]>>

(* The call of the last step that ran load(): load itself, or a           *)
(* construction given a path.                                              *)
Loading(c) == c.op = "load" \/ (c.op = "new" /\ c.path # None)

(* C12: load on a source that does not exist raises FileNotFoundError and  *)
(* leaves the dataset as it was: the question sequence, the questions and  *)
(* the recorded file path keep the values of the last successful load.     *)
C12_LoadMissing ==
    [][(Loading(call') /\ FileKind(ResolvePath(call'.path)) = "missing") =>
          /\ err' = "FileNotFoundError"
          /\ questions' = questions
          /\ qstore' = qstore
          /\ file_path' = file_path]_vars

C12_Witness ==
    /\ call.op = "load"
    /\ call.path = "missing.json"
    /\ err = "FileNotFoundError"
    /\ loads = 2
    /\ file_path = "other.json"
    /\ Len(questions) = 2
    /\ qstore[questions[1]].question = "Q4"

(* The content of the file is not an array of records.                     *)
NotRecordArray(fp) ==
    \/ FileKind(fp) \in {"malformed", "object", "scalar"}
    \/ FileKind(fp) = "records" /\ \E i \in DOMAIN FileData(fp) : ~IsDict(FileData(fp)[i])

(* C13: when the content of the source is not a well-formed collection of  *)
(* records (malformed text, or well-formed data that is not an array of    *)
(* records), load raises a parse error (json.JSONDecodeError) and the      *)
(* question sequence is unchanged.                                         *)
C13_ParseError ==
    [][(Loading(call') /\ NotRecordArray(ResolvePath(call'.path))) =>
          /\ err' = "JSONDecodeError"
          /\ questions' = questions]_vars

(* C14: a load that returns replaces the dataset as a whole: one question  *)
(* per record of the new source, in the records' order, none of them a     *)
(* question of the previous sequence; a load that raises leaves the        *)
(* sequence and the path as they were, so no partial or mixed sequence is  *)
(* ever seen.                                                              *)
C14_LoadReplaces ==
    [][Loading(call') =>
          LET fp == ResolvePath(call'.path)
              data == FileData(fp)
          IN  /\ \A r \in DOMAIN qstore : r \in DOMAIN qstore' /\ qstore'[r] = qstore[r]
              /\ IF err' = "none"
                 THEN /\ file_path' = fp
                      /\ Len(questions') = Len(data)
                      /\ \A i \in DOMAIN data :
                            /\ qstore'[questions'[i]].question = data[i].question
                            /\ qstore'[questions'[i]].choices = data[i].choices
                            /\ questions'[i] \notin ToSet(questions)
                            /\ \A j \in DOMAIN data :
                                  questions'[i] = questions'[j] => i = j
                 ELSE /\ questions' = questions
                      /\ file_path' = file_path]_vars

C14_Witness ==
    /\ call.op = "load"
    /\ call.path = "other.json"
    /\ err = "none"
    /\ loads = 2
    /\ Len(questions) = 2
    /\ qstore[questions[1]].question = "Q4"
    /\ qstore[questions[2]].question = "Q5"
    /\ \E r \in DOMAIN qstore : qstore[r].question = "Q3"

(* C15: every construction QuestionDataset(path) gives the one shared      *)
(* object, whatever the path; after any constructions and loads the        *)
(* generator built on the first construction reads the questions of the    *)
(* file loaded last.                                                       *)
C15_Singleton ==
    /\ call.op = "new" => call.shared
    /\ holder.held =>
          /\ holder.same
          /\ HolderQuestions = questions
          /\ file_path # None =>
                /\ Len(HolderQuestions) = Len(FileData(file_path))
                /\ \A i \in DOMAIN HolderQuestions :
                      qstore[HolderQuestions[i]].question = FileData(file_path)[i].question

C15_Witness ==
    /\ call.op = "new"
    /\ call.path = "other.json"
    /\ err = "none"
    /\ holder.held
    /\ loads = 2
    /\ Len(HolderQuestions) = 2
    /\ qstore[HolderQuestions[1]].question = "Q4"
    /\ \E r \in DOMAIN qstore : qstore[r].question = "Q1"

(* C17: all_tags() returns the set of the tags of the questions loaded at  *)
(* the call: every tag of a loaded question, no tag only a question of a   *)
(* replaced dataset had; two calls with no load between them return equal  *)
(* sets.                                                                   *)
C17_AllTags ==
    [][call'.op = "all_tags" =>
          /\ \A i \in DOMAIN questions :
                ToSet(qstore[questions[i]].tags) \subseteq tagret'.tags
          /\ \A t \in tagret'.tags :
                \E i \in DOMAIN questions : t \in ToSet(qstore[questions[i]].tags)
          /\ tagret.epoch = loads => tagret'.tags = tagret.tags]_vars

C17_Witness ==
    /\ call.op = "all_tags"
    /\ loads = 2
    /\ file_path = "other.json"
    /\ tagret.tags = {"x", "y"}
    /\ \E r \in DOMAIN qstore : "w" \in ToSet(qstore[r].tags)

(* The record of the loaded file the question at quiz position i was      *)
(* built from (SpecCorrect loads one file).                                *)
RecordOf(i) == FileData(file_path)[quiz[i][2]]

(* C16: a record whose mode is absent, or a string other than "single" and *)
(* "multiple", is loaded as a single-choice question and scored by         *)
(* correct_quiz with score_single.                                         *)
C16_DefaultMode ==
    Corrected =>
        \A i \in DOMAIN quiz :
            ("mode" \notin DOMAIN RecordOf(i) \/ RecordOf(i).mode \notin {"single", "multiple"}) =>
                /\ is_single(qstore[quiz[i]])
                /\ results.per_question[i].score =
                       score_single(qstore[quiz[i]].correct, AnswerAt(answers, i - 1))

(* The modules the question at quiz position i counts for, and the quiz    *)
(* positions counting for module m.                                        *)
ModuleSet(i) == ToSet(ModulesOf(qstore[quiz[i]]))

Contributing(m) == {i \in DOMAIN quiz : m \in ModuleSet(i)}

RECURSIVE SumOver(_)
SumOver(I) ==
    IF I = {} THEN Zero
    ELSE LET i == CHOOSE j \in I : TRUE
         IN  RatAdd(results.per_question[i].score, SumOver(I \ {i}))

StatsFor(buckets) ==
    /\ \A i \in DOMAIN quiz : \A m \in ModuleSet(i) :
          \E k \in DOMAIN buckets : buckets[k].module = m
    /\ \A i \in DOMAIN quiz : qstore[quiz[i]].tags = <<>> =>
          \E k \in DOMAIN buckets : buckets[k].module = "General"
    /\ \A k \in DOMAIN buckets :
          LET I == Contributing(buckets[k].module)
          IN  /\ I # {}
              /\ buckets[k].count = Cardinality(I)
              /\ buckets[k].score =
                     RatMul(RatDiv(SumOver(I), Num(Cardinality(I))), Num(100))
              /\ RatLeq(Zero, buckets[k].score)
              /\ RatLeq(buckets[k].score, Num(100))

(* C18: in the statistics computed from a quiz and its correction, every   *)
(* question counts for each of its tags, a question without tags for the   *)
(* implicit General bucket; a bucket's score is 100 times the mean of the  *)
(* scores of the questions counting for it and its count their number;     *)
(* every score lies in [0, 100] and every question counts for a bucket.    *)
C18_ModuleStats == call.op = "module_stats" => StatsFor(stats.modules)

(* C18 for quizzes none of whose questions lists a tag twice.              *)
C18_DistinctTags ==
    (/\ call.op = "module_stats"
     /\ \A i \in DOMAIN quiz :
           LET t == qstore[quiz[i]].tags
           IN  \A a, b \in DOMAIN t : t[a] = t[b] => a = b)
        => StatsFor(stats.modules)

C18_DistinctTagsWitness ==
    /\ call.op = "module_stats"
    /\ Len(quiz) = 2
    /\ qstore[quiz[1]].tags = <<"y", "x">>
    /\ qstore[quiz[2]].tags = <<>>
    /\ Len(stats.modules) = 3
    /\ stats.modules[1].module = "y"
    /\ stats.modules[1].score = Num(50)
    /\ stats.modules[3].module = "General"
    /\ stats.modules[3].score = Zero

(* C19 as stated: a question with a correct answer absent from its        *)
(* choices scores 0 for every selection drawn from its choices, in either  *)
(* mode.                                                                   *)
C19_Unscoreable ==
    score.fn # "none" =>
        \A choices \in SUBSET Options :
            (/\ ToSet(arg_selected) \subseteq choices
             /\ \E c \in ToSet(arg_correct) : c \notin choices)
                => score.val = Zero

(* C19, amended: a question none of whose correct answers is among its     *)
(* choices scores 0 for every selection drawn from its choices, in either  *)
(* mode.                                                                   *)
C19_NoCorrectInChoices ==
    score.fn # "none" =>
        \A choices \in SUBSET Options :
            (/\ ToSet(arg_selected) \subseteq choices
             /\ ToSet(arg_correct) \cap choices = {})
                => score.val = Zero

C19_Witness ==
    /\ score.fn = "multiple"
    /\ arg_correct = <<"C", "D">>
    /\ arg_selected = <<"A", "B">>
    /\ score.val = Zero

(* The session holds a generated, unfinished quiz and a step outside it.   *)
OutOfRange ==
    /\ ss.quiz_generated
    /\ ss.quiz_set
    /\ ~ss.quiz_finished
    /\ InvalidIndex(ss, quiz)

(* C20: whenever the session holds a generated quiz whose step is outside  *)
(* it, as for a quiz without questions, the recovery of main leads to a    *)
(* page showing a question of the quiz, for every dataset loaded, an empty *)
(* one included; the regenerate-and-rerun step is not repeated for ever.   *)
C20_Recovery == OutOfRange ~> (view = "question")

(* C20, one step: the quiz the recovery of main generates has a question   *)
(* at the step it sets.                                                    *)
C20_RecoveryStep ==
    [][(call'.op = "main" /\ call'.recovered) => ~OutOfRange']_vars

(* C21: with shuffle false, generate(tags, count) returns the first       *)
(* min(count, pool size) questions of get_questions_by_tags(tags), the     *)
(* dataset's list being in load order at every such call; the quiz is      *)
(* thus fixed by the arguments and the load the dataset is at, and two     *)
(* such calls on an unreloaded dataset return the same quiz.               *)
C21_NoShuffle ==
    [][(call'.op = "generate" /\ ~call'.shuffle) =>
          LET loaded == IF loads = 0 THEN <<>>
                        ELSE NewRefs(loads, FileData(file_path))
              pool == get_questions_by_tags(loaded, qstore, call'.tags).items
          IN  /\ questions = loaded
              /\ quiz' = SubSeq(pool, 1, Min(call'.n, Len(pool)))]_vars

C21_Witness ==
    /\ call.op = "generate"
    /\ ~call.shuffle
    /\ call.n = 2
    /\ call.tags = Omitted
    /\ Len(questions) = 3
    /\ quiz = <<questions[1], questions[2]>>

(* C26: for a non-empty correct list, score_multiple returns 1.0 exactly   *)
(* when the set of selected options is the set of correct ones; any other  *)
(* selection scores strictly less.                                         *)
C26_FullCredit ==
    (score.fn = "multiple" /\ arg_correct # <<>>) =>
        /\ score.val = One <=> ToSet(arg_selected) = ToSet(arg_correct)
        /\ ToSet(arg_selected) # ToSet(arg_correct) =>
              (RatLeq(score.val, One) /\ score.val # One)

C26_Witness ==
    /\ score.fn = "multiple"
    /\ arg_correct = <<"A", "B">>
    /\ arg_selected = <<"B", "A", "B">>
    /\ score.val = One

(* No option occurs twice in the list.                                     *)
NoRepeat(lst) == \A a, b \in DOMAIN lst : lst[a] = lst[b] => a = b

(* C22: in every session state the selection stored for a single-choice    *)
(* question holds at most one option.  A toggle on a single-choice         *)
(* question leaves exactly the toggled option; on any other question it    *)
(* appends the option when absent and takes it out when present, a second  *)
(* toggle of the same option giving back the same set of options (the      *)
(* order in the list may differ), and no option is stored twice.  After a  *)
(* toggle answers[i] is selected_options[i] for the toggled question and   *)
(* the entries of all other questions are unchanged.                       *)
C22_Toggle ==
    [][/\ \A i \in DOMAIN ss'.selected_options :
             (i + 1 \in DOMAIN quiz' /\ is_single(qstore'[quiz'[i + 1]]))
                 => Len(ss'.selected_options[i]) <= 1
       /\ call'.op = "toggle" =>
             LET i == call'.index
                 opt == call'.option
                 q == qstore[quiz[i + 1]]
                 before == GetList(ss.selected_options, i)
                 after == ss'.selected_options[i]
             IN  /\ is_single(q) => after = <<opt>>
                 /\ (~is_single(q) /\ ~Contains(before, opt)) => after = Append(before, opt)
                 /\ (~is_single(q) /\ Contains(before, opt)) =>
                       /\ ~Contains(after, opt)
                       /\ \E at \in DOMAIN before :
                             after = SubSeq(before, 1, at - 1)
                                         \o SubSeq(before, at + 1, Len(before))
                 /\ ~is_single(q) =>
                       ToSet(toggle_option(q, ss'.selected_options, i, opt)[i])
                           = ToSet(before)
                 /\ NoRepeat(after)
                 /\ answers'[i] = after
                 /\ DOMAIN ss'.selected_options = DOMAIN ss.selected_options \cup {i}
                 /\ DOMAIN answers' = DOMAIN answers \cup {i}
                 /\ \A j \in DOMAIN ss.selected_options \ {i} :
                       ss'.selected_options[j] = ss.selected_options[j]
                 /\ \A j \in DOMAIN answers \ {i} : answers'[j] = answers[j]]_vars

C22_Witness ==
    /\ call.op = "toggle"
    /\ call.index = 1
    /\ call.option = "A"
    /\ Len(quiz) = 2
    /\ qstore[quiz[1]].mode = "single"
    /\ qstore[quiz[2]].mode = "multiple"
    /\ ss.selected_options[0] = <<"B">>
    /\ ss.selected_options[1] = <<"B", "A">>
    /\ answers[1] = <<"B", "A">>

C24_FinishAnswers ==
    [][/\ call'.op = "click_finish" =>
             /\ DOMAIN answers' = 0..(Len(quiz) - 1)
             /\ \A i \in 0..(Len(quiz) - 1) :
                   /\ answers'[i] = GetList(ss.selected_options, i)
                   /\ results'.per_question[i + 1].selected.val
                          = GetList(ss.selected_options, i)
                   /\ results'.per_question[i + 1].question
                          = qstore[quiz[i + 1]].question
       /\ (\/ call'.op \in {"click_generate", "click_new_quiz"}
           \/ (call'.op = "main" /\ call'.recovered)) =>
             /\ ss'.step = 0
             /\ answers' = <<>>
             /\ ss'.selected_options = <<>>
       /\ \A i \in DOMAIN ss'.selected_options \cup DOMAIN answers' :
             i \in 0..(Len(quiz') - 1)]_vars

C24_Witness ==
    /\ call.op = "click_finish"
    /\ Len(ss.quiz_history) = 1
    /\ Len(quiz) = 2
    /\ qstore[quiz[1]].mode = "multiple"
    /\ answers[0] = <<"B", "A">>
    /\ answers[1] = <<>>
    /\ results.per_question[1].selected.val = <<"B", "A">>
    /\ results.per_question[2].selected.val = <<>>
    /\ results.total_score = Num(50)

(* C25: while a quiz with questions is in progress the step is a position  *)
(* of the quiz, after every action; Précédent is taken only at a step > 0, *)
(* Suivant only before the last position, Terminer only at the last one.   *)
C25_StepInRange ==
    [][/\ (ss'.quiz_generated /\ ss'.quiz_set /\ ~ss'.quiz_finished /\ quiz' # <<>>) =>
             (0 <= ss'.step /\ ss'.step < Len(quiz'))
       /\ call'.op = "click_previous" => ss.step > 0
       /\ call'.op = "click_next" => ss.step < Len(quiz) - 1
       /\ call'.op = "click_finish" => ss.step = Len(quiz) - 1]_vars

C25_Witness ==
    /\ call.op = "click_previous"
    /\ Len(quiz) = 2
    /\ ss.step = 0
    /\ 1 \in DOMAIN ss.selected_options
    /\ ss.selected_options[1] = <<"A">>

====
